---- MODULE Spec2Model ----
(***************************************************************************)
(* Sprite animation scheduler of scarab-engine                             *)
(* (scarab-engine/src/rendering/sprite/mod.rs).                            *)
(*                                                                         *)
(* Four state machines share the variables below:                          *)
(*   SpecNew   SpriteAnimation::new applied to bounded constructor inputs  *)
(*   SpecAnim  one SpriteAnimation driven by reset / render and the clock  *)
(*   Spec      an AnimationStateMachine driven by new / static_animation,  *)
(*             set_state_animation, set_current_state, render, the clock   *)
(*   SpecLive  a machine whose policy returns None, rendered between any   *)
(*             two clock ticks, under weak fairness                        *)
(*   SpecSameState  a machine of one animation of any frame duration,     *)
(*             asked again and again for the state it is in                *)
(* and a fifth one covers the key bindings of src/input.rs:                *)
(*   SpecInput an Axis2dBinding fed button events by maybe_to_action       *)
(*                                                                         *)
(* Numbers.  f64 quantities are fixed-point: a frame size is a count of    *)
(* 1/PxDen pixels, a frame duration a count of 1/MsDen milliseconds, so    *)
(* that the casts `as u32` / `as u128` of the source (truncation toward    *)
(* zero) are modelled by what they do.  An Instant is a count of clock     *)
(* ticks, TicksPerMs ticks to the millisecond, so that                     *)
(* Duration::as_millis (whole milliseconds, rounded down) is modelled too. *)
(* usize / u32 / u128 values stay far below their widths within the        *)
(* bounds, so no wrap-around is modelled.                                  *)
(***************************************************************************)
EXTENDS Integers, Sequences, FiniteSets, TLC

VARIABLES
    now,        \* the monotonic clock read by Instant::now(), in ticks
    anim,       \* SpecNew / SpecAnim: the SpriteAnimation under test
    machine,    \* Spec: the AnimationStateMachine
    result,     \* what the last call returned (or that it panicked)
    op,         \* the last call and its arguments
    binding,    \* SpecInput: the Axis2dBinding
    events      \* SpecInput: the button events delivered so far

vars == <<now, anim, machine, result, op, binding, events>>

----------------------------------------------------------------------------
(* Resolution of the fixed-point quantities and bounds of the model *)

PxDen == 2          \* frame sizes are counted in 1/PxDen pixels
MsDen == 2          \* frame durations are counted in 1/MsDen milliseconds
TicksPerMs == 2     \* clock ticks per millisecond
MaxSize == 5        \* largest frame width / height, in 1/PxDen pixels
MaxSheet == 6       \* largest sprite sheet extent, in pixels
MaxHint == 4        \* largest frame-count hint
MaxTime == 12       \* the clock stops ticking after MaxTime small ticks
MaxJumps == 2       \* and after MaxJumps jumps of one static frame duration
MaxMs == 4          \* longest frame duration, in 1/MsDen milliseconds
MaxMachineTime == 4 \* the clock of Spec stops ticking after MaxMachineTime ticks
MaxEvents == 3      \* SpecInput delivers at most MaxEvents button events

\* Option<T>: None, or Some(x)
None == <<>>
Some(x) == <<x>>
Unwrap(o) == o[1]

Axes == {"X", "Y"}

----------------------------------------------------------------------------
(* Casts *)

\* `x as u32` / `x as u128` for a non-negative f64 x held as x_fp / den:
\* the fractional part is dropped.
FloatAsUint(x_fp, den) == x_fp \div den

\* Duration::as_millis of a duration held in ticks: whole milliseconds.
as_millis(ticks) == ticks \div TicksPerMs

----------------------------------------------------------------------------
(* SpriteView *)

\* SpriteView::new: the source rectangle starts at the origin with the
\* frame's size.  src_rect is the rectangle's origin <<x, y>> in 1/PxDen px.
SpriteViewNew(sprite_size) ==
    [sprite_size |-> sprite_size, src_rect |-> <<0, 0>>]

\* SpriteView::set_src_rect_pos
set_src_rect_pos(sprite, new_pos) ==
    [sprite EXCEPT !.src_rect = new_pos]

\* SpriteView::render: one draw call of the source rectangle when the camera
\* projects the viewed box, none otherwise; Ok(()) either way.
SpriteViewRender(sprite, visible) ==
    IF visible THEN <<sprite.src_rect>> ELSE <<>>

----------------------------------------------------------------------------
(* SpriteAnimation *)

\* milliseconds_per_frame of a static frame, in milliseconds
StaticMsPerFrame == 1000

\* The extent of a <<w, h>> pair along an axis.
Along(pair, axis) == IF axis = "X" THEN pair[1] ELSE pair[2]

\* SpriteAnimation::new, called at clock t.
\*   sprite_size            <<w, h>> in 1/PxDen px
\*   texture                registry.get(texture_path): None, or Some of the
\*                          texture's size <<width, height>> in px
\*   milliseconds_per_frame in 1/MsDen ms
\*   frames_in_sprite_map   None, or Some requested number of frames
\* The integer division by a frame size that casts to 0 panics.
SpriteAnimationNew(sprite_size, texture, milliseconds_per_frame, animation_direction, frames_in_sprite_map, t) ==
    IF texture = None THEN [tag |-> "TextureNotLoaded"]
    ELSE
      LET map_size == Unwrap(texture)
          divisor == FloatAsUint(Along(sprite_size, animation_direction), PxDen)
      IN  IF divisor = 0 THEN [tag |-> "panic"]
          ELSE
            LET max_num_frames == Along(map_size, animation_direction) \div divisor
            IN  IF frames_in_sprite_map # None
                   /\ Unwrap(frames_in_sprite_map) > max_num_frames
                THEN [tag |-> "TooManyFrames",
                      requested |-> Unwrap(frames_in_sprite_map),
                      max |-> max_num_frames]
                ELSE [tag |-> "Ok",
                      anim |->
                        [sprite |-> SpriteViewNew(sprite_size),
                         frames_in_sprite_map |->
                            IF frames_in_sprite_map # None
                            THEN Unwrap(frames_in_sprite_map) ELSE max_num_frames,
                         frame_num |-> 0,
                         milliseconds_per_frame |-> milliseconds_per_frame,
                         animation_direction |-> animation_direction,
                         last_update |-> t]]

\* SpriteAnimation::new_static_frame, called at clock t.
new_static_frame(sprite, t) ==
    [sprite |-> sprite,
     frames_in_sprite_map |-> 0,
     frame_num |-> 0,
     milliseconds_per_frame |-> StaticMsPerFrame * MsDen,
     animation_direction |-> "X",
     last_update |-> t]

\* reset that restarts the timestamp but keeps the frame index.
resetKeepsFrame(a, t) ==
    [a EXCEPT !.last_update = t]

\* SpriteAnimation::reset, called at clock t.
reset(a, t) ==
    [a EXCEPT !.frame_num = 0, !.last_update = t]

\* The divisor of the elapsed-frame computation:
\* `self.milliseconds_per_frame as u128`.
FrameMillis(a) == FloatAsUint(a.milliseconds_per_frame, MsDen)

\* num_new_frames of SpriteAnimation::render at clock t (FrameMillis(a) > 0).
num_new_frames(a, t) == as_millis(t - a.last_update) \div FrameMillis(a)

\* The cursor origin of frame frame_num.
FramePos(a, frame_num) ==
    IF a.animation_direction = "X"
    THEN <<frame_num * a.sprite.sprite_size[1], 0>>
    ELSE <<0, frame_num * a.sprite.sprite_size[2]>>

\* Advance without the wrap-around (the `% frames_in_sprite_map` left out).
AdvanceNoWrap(a, k, t) ==
    LET frame_num == a.frame_num + k
    IN  [a EXCEPT !.last_update = t,
                  !.frame_num = frame_num,
                  !.sprite = set_src_rect_pos(a.sprite, FramePos(a, frame_num))]

\* Advance by one frame per call, however many frames have elapsed.
AdvanceSingleStep(a, k, t) ==
    LET frame_num == (a.frame_num + 1) % a.frames_in_sprite_map
    IN  [a EXCEPT !.last_update = t,
                  !.frame_num = frame_num,
                  !.sprite = set_src_rect_pos(a.sprite, FramePos(a, frame_num))]

\* The body of the `if` of SpriteAnimation::render: k new frames seen at t.
Advance(a, k, t) ==
    LET frame_num == (a.frame_num + k) % a.frames_in_sprite_map
    IN  [a EXCEPT !.last_update = t,
                  !.frame_num = frame_num,
                  !.sprite = set_src_rect_pos(a.sprite, FramePos(a, frame_num))]

\* SpriteAnimation::render without the `frames_in_sprite_map > 0` guard: the
\* remainder by a zero frame count panics.
SpriteAnimationRenderUnguarded(a, t, visible) ==
    IF FrameMillis(a) = 0
    THEN [tag |-> "panic", anim |-> a, drawn |-> <<>>]
    ELSE
      LET k == num_new_frames(a, t)
      IN  IF k > 0 /\ a.frames_in_sprite_map = 0
          THEN [tag |-> "panic", anim |-> [a EXCEPT !.last_update = t],
                drawn |-> <<>>]
          ELSE
            LET b == IF k > 0 THEN Advance(a, k, t) ELSE a
            IN  [tag |-> "Ok", anim |-> b,
                 drawn |-> SpriteViewRender(b.sprite, visible)]

\* render that stores the sampled clock on every call, also when no frame
\* has elapsed.
SpriteAnimationRenderAlwaysStamps(a, t, visible) ==
    IF FrameMillis(a) = 0
    THEN [tag |-> "panic", anim |-> a, drawn |-> <<>>]
    ELSE
      LET k == num_new_frames(a, t)
          b == IF k > 0 /\ a.frames_in_sprite_map > 0 THEN Advance(a, k, t)
               ELSE [a EXCEPT !.last_update = t]
      IN  [tag |-> "Ok", anim |-> b, drawn |-> SpriteViewRender(b.sprite, visible)]

\* SpriteAnimation::render at clock t.  The u128 division by a frame
\* duration that casts to 0 panics before anything is changed.
SpriteAnimationRender(a, t, visible) ==
    IF FrameMillis(a) = 0
    THEN [tag |-> "panic", anim |-> a, drawn |-> <<>>]
    ELSE
      LET k == num_new_frames(a, t)
          b == IF k > 0 /\ a.frames_in_sprite_map > 0 THEN Advance(a, k, t) ELSE a
      IN  [tag |-> "Ok", anim |-> b, drawn |-> SpriteViewRender(b.sprite, visible)]

----------------------------------------------------------------------------
(* The clock *)

\* now = jump part + small part; each part is bounded.
JumpTicks == StaticMsPerFrame * TicksPerMs

\* A little time passes between two calls.
Tick ==
    /\ now % JumpTicks < MaxTime
    /\ now' = now + 1
    /\ UNCHANGED <<anim, machine, result, op, binding, events>>

\* A long time (one frame duration of a static frame) passes.
Jump ==
    /\ now \div JumpTicks < MaxJumps
    /\ now' = now + JumpTicks
    /\ UNCHANGED <<anim, machine, result, op, binding, events>>

NoResult == [tag |-> "none"]
NoMachine == [tag |-> "none"]

----------------------------------------------------------------------------
(* SpecNew: SpriteAnimation::new over bounded constructor inputs *)

SheetExtents == (0 .. MaxSheet) \cup {64}
FrameSizes == (1 .. MaxSize) \cup {20 * PxDen}
Hints == {None} \cup {Some(h) : h \in 0 .. MaxHint + 1}
Textures == {None} \cup {Some(<<w, h>>) : w, h \in SheetExtents}

NewInputs ==
    [sprite_size : FrameSizes \X FrameSizes,
     texture : Textures,
     milliseconds_per_frame : {MsDen},
     animation_direction : Axes,
     frames_in_sprite_map : Hints]

InitNew ==
    /\ now = 0
    /\ anim = None
    /\ binding = None
    /\ events = <<>>
    /\ machine = NoMachine
    /\ result = NoResult
    /\ op \in {[name |-> "pending"] @@ i : i \in NewInputs}

\* The pending call of SpriteAnimation::new is made.
NewAnimation ==
    /\ op.name = "pending"
    /\ LET r == SpriteAnimationNew(op.sprite_size, op.texture,
                                   op.milliseconds_per_frame,
                                   op.animation_direction,
                                   op.frames_in_sprite_map, now)
       IN  /\ result' = r
           /\ anim' = IF r.tag = "Ok" THEN Some(r.anim) ELSE None
    /\ op' = [op EXCEPT !.name = "SpriteAnimation::new"]
    /\ UNCHANGED <<now, machine, binding, events>>

NextNew == NewAnimation

SpecNew == InitNew /\ [][NextNew]_vars

----------------------------------------------------------------------------
(* C9, C10: the frame count SpriteAnimation::new settles on *)

\* The integer quotient of a sheet extent (px) by a frame size (1/PxDen px).
QuotientBySize(extent, size_fp) == (extent * PxDen) \div size_fp

OpAxisSize == Along(op.sprite_size, op.animation_direction)
OpAxisExtent == Along(Unwrap(op.texture), op.animation_direction)

\* C9: with a hint h and a loaded texture, SpriteAnimation::new fails with
\* TooManyFrames(h, max_frames) exactly when h > max_frames, max_frames being
\* the integer quotient of the sheet extent along the advance axis by the
\* frame size along that axis; a hint h <= max_frames does not fail.
C9_TooManyFramesExactlyAboveQuotient ==
    (op.name = "SpriteAnimation::new" /\ op.texture # None
        /\ op.frames_in_sprite_map # None) =>
      LET h == Unwrap(op.frames_in_sprite_map)
          max_frames == QuotientBySize(OpAxisExtent, OpAxisSize)
      IN  IF h > max_frames
          THEN /\ result.tag = "TooManyFrames"
               /\ result.requested = h
               /\ result.max = max_frames
          ELSE result.tag = "Ok"

\* C10: a successful SpriteAnimation::new yields frame count = the hint when a
\* hint is given, and = sheet extent / frame size along the axis (integer
\* division) when none is given, with frame index 0 in both cases.
C10_FrameCountIsHintOrQuotient ==
    (op.name = "SpriteAnimation::new" /\ result.tag = "Ok") =>
      /\ result.anim.frame_num = 0
      /\ result.anim.frames_in_sprite_map =
            IF op.frames_in_sprite_map # None
            THEN Unwrap(op.frames_in_sprite_map)
            ELSE QuotientBySize(OpAxisExtent, OpAxisSize)

----------------------------------------------------------------------------
(* SpecAnim: one SpriteAnimation, constructed and then driven by reset and
   render calls while the clock advances *)

AnimSizes == {<<PxDen, PxDen>>, <<PxDen + 1, 2 * PxDen>>}
AnimHints == {None} \cup {Some(h) : h \in 0 .. MaxHint}
AnimInputs ==
    [sprite_size : AnimSizes,
     texture : {Some(<<MaxHint, MaxHint>>)},
     milliseconds_per_frame : 1 .. MaxMs,
     animation_direction : Axes,
     frames_in_sprite_map : AnimHints]

Running == result.tag # "panic"

InitAnim ==
    /\ now = 0
    /\ anim = None
    /\ binding = None
    /\ events = <<>>
    /\ machine = NoMachine
    /\ result = NoResult
    /\ op = [name |-> "none"]

\* SpriteAnimation::new
AnimNew ==
    /\ Running /\ anim = None
    /\ \E i \in AnimInputs :
         LET r == SpriteAnimationNew(i.sprite_size, i.texture,
                                     i.milliseconds_per_frame,
                                     i.animation_direction,
                                     i.frames_in_sprite_map, now)
         IN  /\ result' = [tag |-> r.tag]
             /\ anim' = IF r.tag = "Ok" THEN Some(r.anim) ELSE None
    /\ op' = [name |-> "new"]
    /\ UNCHANGED <<now, machine, binding, events>>

\* SpriteAnimation::new_static_frame
AnimNewStatic ==
    /\ Running /\ anim = None
    /\ \E size \in AnimSizes :
         anim' = Some(new_static_frame(SpriteViewNew(size), now))
    /\ result' = [tag |-> "Ok"]
    /\ op' = [name |-> "new_static_frame"]
    /\ UNCHANGED <<now, machine, binding, events>>

\* SpriteAnimation::reset
AnimReset ==
    /\ Running /\ anim # None
    /\ anim' = Some(reset(Unwrap(anim), now))
    /\ result' = [tag |-> "Ok"]
    /\ op' = [name |-> "reset"]
    /\ UNCHANGED <<now, machine, binding, events>>

\* SpriteAnimation::render.  op records the number of elapsed frames the
\* call observed (None when it panicked before computing it).
AnimRender ==
    /\ Running /\ anim # None
    /\ \E visible \in BOOLEAN :
         LET a == Unwrap(anim)
             r == SpriteAnimationRender(a, now, visible)
         IN  /\ anim' = Some(r.anim)
             /\ result' = [tag |-> r.tag, drawn |-> r.drawn]
             /\ op' = [name |-> "render",
                       elapsed_frames |->
                          IF r.tag = "panic" THEN None
                          ELSE Some(num_new_frames(a, now))]
    /\ UNCHANGED <<now, machine, binding, events>>

NextAnim == AnimNew \/ AnimNewStatic \/ AnimReset \/ AnimRender \/ Tick \/ Jump

SpecAnim == InitAnim /\ [][NextAnim]_vars

----------------------------------------------------------------------------
(* C6, C7, C8: the frame index of one SpriteAnimation *)

TheAnim == Unwrap(anim)

\* The step is a call of SpriteAnimation::render that returned.
RenderReturned ==
    /\ anim # None
    /\ now' = now
    /\ op'.name = "render"
    /\ result'.tag = "Ok"

\* C6: a SpriteAnimation with frame count > 0 has its frame index in
\* [0, frame count) after any sequence of construction, reset and render
\* calls, whatever time elapsed between them.
C6_FrameIndexBelowFrameCount ==
    (anim # None /\ TheAnim.frames_in_sprite_map > 0) =>
        /\ TheAnim.frame_num >= 0
        /\ TheAnim.frame_num < TheAnim.frames_in_sprite_map

\* C6 witness: a render that saw more elapsed frames than the strip holds has
\* wrapped around and stands on the last frame.
C6_Witness ==
    /\ anim # None
    /\ op.name = "render" /\ op.elapsed_frames # None
    /\ TheAnim.frames_in_sprite_map >= 2
    /\ Unwrap(op.elapsed_frames) > TheAnim.frames_in_sprite_map
    /\ TheAnim.frame_num = TheAnim.frames_in_sprite_map - 1

\* C7: with frame count f > 0 and frame index i, a render that observes k
\* elapsed frames leaves the index at (i + k) mod f, the index reached by
\* advancing by k mod f; a whole number of cycles returns to i.
C7_RenderAdvancesModuloFrameCount ==
    [][(RenderReturned /\ TheAnim.frames_in_sprite_map > 0) =>
         LET f == TheAnim.frames_in_sprite_map
             i == TheAnim.frame_num
             k == Unwrap(op'.elapsed_frames)
             j == Unwrap(anim').frame_num
         IN  /\ k >= 0
             /\ j = (i + k) % f
             /\ j = (i + (k % f)) % f
             /\ (k % f = 0 => j = i)]_vars

\* C7 witness: a render that observed more than one whole cycle (k > f, k a
\* multiple of f) from a frame index other than 0.
C7_Witness ==
    /\ anim # None
    /\ op.name = "render" /\ op.elapsed_frames # None
    /\ TheAnim.frames_in_sprite_map >= 2
    /\ Unwrap(op.elapsed_frames) > TheAnim.frames_in_sprite_map
    /\ Unwrap(op.elapsed_frames) % TheAnim.frames_in_sprite_map = 0
    /\ TheAnim.frame_num > 0

\* What new_static_frame builds: no frames, one second per frame.
IsStaticFrame(a) ==
    /\ a.frames_in_sprite_map = 0
    /\ a.milliseconds_per_frame = StaticMsPerFrame * MsDen

\* C8: a static SpriteAnimation keeps the frame index and the source
\* rectangle cursor it was built with under any sequence of render and reset
\* calls, however much time elapses, and no render panics on the zero frame
\* count.
C8_StaticFrameNeverMoves ==
    (anim # None /\ IsStaticFrame(TheAnim)) =>
        /\ TheAnim.frame_num = 0
        /\ TheAnim.sprite.src_rect = <<0, 0>>
        /\ result.tag # "panic"

\* C8 witness: a static frame rendered after its frame duration has elapsed
\* at least twice over.
C8_Witness ==
    /\ anim # None /\ IsStaticFrame(TheAnim)
    /\ op.name = "render" /\ op.elapsed_frames # None
    /\ Unwrap(op.elapsed_frames) >= 2
    /\ result.tag = "Ok" /\ result.drawn # <<>>

----------------------------------------------------------------------------
(* AnimationStateMachine *)

\* The values of the caller's state type S, and the one value of
\* StaticAnimation<E>.
States == {"idle", "walk", "dead"}
StaticState == "static"

\* AnimationStateMachine::new.  The lookup of initial_state builds an error
\* value that is dropped (`let _ = ...`); the machine is returned regardless.
AnimationStateMachineNew(initial_state, animations) ==
    [tag |-> "Ok",
     machine |-> [tag |-> "Ok",
                  kind |-> "generic",
                  current_state |-> initial_state,
                  animations |-> animations]]

\* AnimationStateMachine::static_animation
static_animation(animation) ==
    [tag |-> "Ok",
     kind |-> "static",
     current_state |-> StaticState,
     animations |-> (StaticState :> animation)]

\* HashMap::insert: the entry of state is added or replaced.
Insert(animations, state, animation) ==
    [s \in DOMAIN animations \cup {state} |->
        IF s = state THEN animation ELSE animations[s]]

\* set_state_animation that restarts the animation it stores.
set_state_animation_Resets(m, state, animation) ==
    [m EXCEPT !.animations =
        Insert(m.animations, state,
               [animation EXCEPT !.frame_num = 0, !.last_update = now])]

\* AnimationStateMachine::set_state_animation
set_state_animation(m, state, animation) ==
    [m EXCEPT !.animations = Insert(m.animations, state, animation)]

\* set_current_state that treats a transition to the state that is already
\* current as a no-op.
set_current_state_SkipSame(m, new_state, t) ==
    IF new_state = m.current_state
    THEN [tag |-> "Ok", machine |-> m]
    ELSE IF new_state \in DOMAIN m.animations
    THEN [tag |-> "Ok",
          machine |-> [m EXCEPT !.animations[new_state] = reset(@, t),
                                !.current_state = new_state]]
    ELSE [tag |-> "NoAnimationForState", state |-> new_state, machine |-> m]

\* set_current_state that switches the current state before it finds out
\* that the new state has no animation.
set_current_state_SwitchFirst(m, new_state, t) ==
    IF new_state \in DOMAIN m.animations
    THEN [tag |-> "Ok",
          machine |-> [m EXCEPT !.animations[new_state] = reset(@, t),
                                !.current_state = new_state]]
    ELSE [tag |-> "NoAnimationForState", state |-> new_state,
          machine |-> [m EXCEPT !.current_state = new_state]]

\* AnimationStateMachine::set_current_state, called at clock t.
set_current_state(m, new_state, t) ==
    IF new_state \in DOMAIN m.animations
    THEN [tag |-> "Ok",
          machine |-> [m EXCEPT !.animations[new_state] = reset(@, t),
                                !.current_state = new_state]]
    ELSE [tag |-> "NoAnimationForState", state |-> new_state, machine |-> m]

\* render that selects the animation of the state that was current when the
\* call began, and only then applies the policy's transition.
MachineRenderSelectsFirst(m, next, t, t_render, visible) ==
    IF m.current_state \notin DOMAIN m.animations
    THEN [tag |-> "panic", machine |-> m, drawn |-> <<>>]
    ELSE
      LET r == SpriteAnimationRender(m.animations[m.current_state], t_render, visible)
          m1 == [m EXCEPT !.animations[m.current_state] = r.anim]
          m2 == IF next = None THEN m1
                ELSE set_current_state(m1, Unwrap(next), t).machine
      IN  [tag |-> r.tag, machine |-> m2, drawn |-> r.drawn]

\* AnimationStateMachine::render, the policy's next_state having returned
\* `next` (None or Some state).  The call reads the clock twice: reset, when
\* set_current_state accepts the transition, samples it at t, and
\* SpriteAnimation::render samples it again at t_render >= t, after the
\* lookup of the current state's animation.  A failed transition is printed
\* and dropped; the unwrap of the current state's animation panics when the
\* current state has no entry.
MachineRender(m, next, t, t_render, visible) ==
    LET m1 == IF next = None THEN m
              ELSE set_current_state(m, Unwrap(next), t).machine
    IN  IF m1.current_state \notin DOMAIN m1.animations
        THEN [tag |-> "panic", machine |-> m1, drawn |-> <<>>]
        ELSE
          LET r == SpriteAnimationRender(m1.animations[m1.current_state], t_render, visible)
          IN  [tag |-> r.tag,
               machine |-> [m1 EXCEPT !.animations[m1.current_state] = r.anim],
               drawn |-> r.drawn]

----------------------------------------------------------------------------
(* Spec: an AnimationStateMachine, constructed and then driven by
   set_state_animation, set_current_state and render calls while the clock
   advances *)

\* The animations a caller hands to the machine: built at clock t by
\* SpriteAnimation::new (three frames, or two by hint) or new_static_frame.
MachineAnimInputs ==
    [sprite_size : {<<PxDen, PxDen>>},
     texture : {Some(<<3, 3>>)},
     milliseconds_per_frame : {MsDen},
     animation_direction : {"X"},
     frames_in_sprite_map : {None, Some(2)}]

FreshAnims(t) ==
    {SpriteAnimationNew(i.sprite_size, i.texture, i.milliseconds_per_frame,
                        i.animation_direction, i.frames_in_sprite_map, t).anim :
        i \in MachineAnimInputs}
    \cup {new_static_frame(SpriteViewNew(<<PxDen, PxDen>>), t)}

\* The values of the machine's state type.
StatesOf(m) == IF m.kind = "static" THEN {StaticState} ELSE States

\* A StaticAnimation policy that answers Some(self) instead of None.
NextStatesStaticReturnsSelf(m) ==
    IF m.kind = "static" THEN {Some(StaticState)}
    ELSE {None} \cup {Some(s) : s \in States}

\* What the policy's next_state may return: anything for a caller's type,
\* None for StaticAnimation.
NextStates(m) ==
    IF m.kind = "static" THEN {None} ELSE {None} \cup {Some(s) : s \in States}

Init ==
    /\ now = 0
    /\ anim = None
    /\ binding = None
    /\ events = <<>>
    /\ machine = NoMachine
    /\ result = NoResult
    /\ op = [name |-> "none"]

Built == machine.tag = "Ok"

MachineTick ==
    /\ now < MaxMachineTime
    /\ now' = now + 1
    /\ UNCHANGED <<anim, machine, result, op, binding, events>>

\* AnimationStateMachine::new
New ==
    /\ Running /\ ~Built
    /\ \E initial_state \in States, D \in SUBSET States :
         \E animations \in [D -> FreshAnims(now)] :
           LET r == AnimationStateMachineNew(initial_state, animations)
           IN  /\ result' = [tag |-> r.tag]
               /\ machine' = IF r.tag = "Ok" THEN r.machine ELSE NoMachine
               /\ op' = [name |-> "new", state |-> initial_state,
                         mapped |-> initial_state \in D]
    /\ UNCHANGED <<now, anim, binding, events>>

\* AnimationStateMachine::static_animation
StaticAnimation ==
    /\ Running /\ ~Built
    /\ \E a \in FreshAnims(now) : machine' = static_animation(a)
    /\ result' = [tag |-> "Ok"]
    /\ op' = [name |-> "static_animation"]
    /\ UNCHANGED <<now, anim, binding, events>>

\* AnimationStateMachine::set_state_animation.  The animation handed in was
\* built by the caller just now or when the program started.
SetStateAnimation ==
    /\ Running /\ Built
    /\ \E s \in StatesOf(machine), built_at \in {0, now} :
         \E a \in FreshAnims(built_at) :
           /\ machine' = set_state_animation(machine, s, a)
           /\ op' = [name |-> "set_state_animation", state |-> s,
                     animation |-> a]
    /\ result' = [tag |-> "Ok"]
    /\ UNCHANGED <<now, anim, binding, events>>

\* AnimationStateMachine::set_current_state
SetCurrentState ==
    /\ Running /\ Built
    /\ \E s \in StatesOf(machine) :
         LET r == set_current_state(machine, s, now)
         IN  /\ machine' = r.machine
             /\ result' = IF r.tag = "Ok" THEN [tag |-> "Ok"]
                          ELSE [tag |-> r.tag, state |-> r.state]
             /\ op' = [name |-> "set_current_state", state |-> s]
    /\ UNCHANGED <<now, anim, binding, events>>

\* The policy's answer makes set_current_state call reset, so that the
\* render call samples the clock twice.
ResetsInRender(m, next) ==
    next # None /\ Unwrap(next) \in DOMAIN m.animations

\* AnimationStateMachine::render.  Time may pass inside the call between the
\* clock sample of reset and the one of SpriteAnimation::render (the lookup
\* runs the caller's Hash and Eq, the thread may be descheduled); the call
\* returns at the second sample.
Render ==
    /\ Running /\ Built
    /\ \E next \in NextStates(machine), visible \in BOOLEAN :
         \E t_render \in now .. MaxMachineTime :
           /\ t_render > now => ResetsInRender(machine, next)
           /\ LET r == MachineRender(machine, next, now, t_render, visible)
              IN  /\ machine' = r.machine
                  /\ result' = [tag |-> r.tag, drawn |-> r.drawn]
           /\ op' = [name |-> "render", next |-> next, rendered_at |-> t_render]
           /\ now' = t_render
    /\ UNCHANGED <<anim, binding, events>>

Next ==
    \/ New
    \/ StaticAnimation
    \/ SetStateAnimation
    \/ SetCurrentState
    \/ Render
    \/ MachineTick

Spec == Init /\ [][Next]_vars

----------------------------------------------------------------------------
(* C1 .. C5: transitions of the AnimationStateMachine *)

\* The step is a call of set_current_state on a constructed machine.
SetCurrentStateCalled ==
    /\ Built
    /\ now' = now
    /\ op'.name = "set_current_state"

\* The step is a call of render on a constructed machine: it returns at the
\* clock sample of SpriteAnimation::render.
RenderCalled ==
    /\ Built
    /\ op'.name = "render"
    /\ op'.rendered_at = now'

\* C1: set_current_state(s) with s unmapped returns NoAnimationForState and
\* leaves the current state, the mapping's key set and every animation's
\* frame index and last-update timestamp unchanged.
C1_UnmappedTransitionChangesNothing ==
    [][(SetCurrentStateCalled /\ op'.state \notin DOMAIN machine.animations) =>
         /\ result'.tag = "NoAnimationForState"
         /\ result'.state = op'.state
         /\ machine'.current_state = machine.current_state
         /\ DOMAIN machine'.animations = DOMAIN machine.animations
         /\ \A s \in DOMAIN machine.animations :
              /\ machine'.animations[s].frame_num = machine.animations[s].frame_num
              /\ machine'.animations[s].last_update =
                    machine.animations[s].last_update]_vars

\* C1 witness: a refused transition on a machine one of whose animations has
\* advanced.
C1_Witness ==
    /\ Built
    /\ op.name = "set_current_state"
    /\ result.tag = "NoAnimationForState"
    /\ op.state # machine.current_state
    /\ \E s \in DOMAIN machine.animations : machine.animations[s].frame_num > 0

\* C2: set_current_state(s) with s mapped returns Ok; afterwards the current
\* state is s, the animation of s has frame index 0 and last-update = the
\* time of the call, and the animations of all other states are unchanged.
C2_MappedTransitionResetsTarget ==
    [][(SetCurrentStateCalled /\ op'.state \in DOMAIN machine.animations) =>
         /\ result'.tag = "Ok"
         /\ machine'.current_state = op'.state
         /\ DOMAIN machine'.animations = DOMAIN machine.animations
         /\ machine'.animations[op'.state].frame_num = 0
         /\ machine'.animations[op'.state].last_update = now
         /\ \A s \in DOMAIN machine.animations \ {op'.state} :
              machine'.animations[s] = machine.animations[s]]_vars

\* C2 witness: an accepted transition whose target had advanced before (its
\* cursor is still off the origin) while another state's animation stands on
\* a later frame.
C2_Witness ==
    /\ Built
    /\ op.name = "set_current_state"
    /\ result.tag = "Ok"
    /\ machine.animations[machine.current_state].frame_num = 0
    /\ machine.animations[machine.current_state].sprite.src_rect # <<0, 0>>
    /\ \E s \in DOMAIN machine.animations : machine.animations[s].frame_num > 0

\* C3: a render whose policy asks for an unmapped state does not panic and
\* returns no error, leaves the current state as it was, and advances and
\* draws the current state's animation exactly as if the policy had returned
\* None.
C3_RenderSurvivesUnmappedRequest ==
    [][(RenderCalled /\ op'.next # None
            /\ Unwrap(op'.next) \notin DOMAIN machine.animations) =>
         /\ result'.tag = "Ok"
         /\ machine'.current_state = machine.current_state
         /\ \E visible \in BOOLEAN :
              LET r == MachineRender(machine, None, now, now, visible)
              IN  /\ machine' = r.machine
                  /\ result'.drawn = r.drawn]_vars

\* Where the render of C3 goes wrong: only on a machine whose current state
\* has no entry (one that new accepted, see C5).  On every other machine the
\* statement of C3 holds.
RenderSurvivesUnmappedRequestIfCurrentMapped ==
    [][(RenderCalled /\ op'.next # None
            /\ Unwrap(op'.next) \notin DOMAIN machine.animations
            /\ machine.current_state \in DOMAIN machine.animations) =>
         /\ result'.tag = "Ok"
         /\ machine'.current_state = machine.current_state
         /\ \E visible \in BOOLEAN :
              LET r == MachineRender(machine, None, now, now, visible)
              IN  /\ machine' = r.machine
                  /\ result'.drawn = r.drawn]_vars

\* C4: in every reachable state of a constructed machine the current state
\* has an entry in the state -> animation mapping, and no render has
\* panicked on the lookup.
C4_CurrentStateAlwaysMapped ==
    Built =>
        /\ machine.current_state \in DOMAIN machine.animations
        /\ result.tag # "panic"

\* C5: AnimationStateMachine::new fails with NoAnimationForState and returns
\* no machine whenever animations has no entry for initial_state.
C5_NewFailsOnUnmappedInitialState ==
    (op.name = "new" /\ ~op.mapped) =>
        /\ result.tag = "NoAnimationForState"
        /\ ~Built

----------------------------------------------------------------------------
(* C11: the machine of a single animation *)

IsStaticMachine(m) == m.tag = "Ok" /\ m.kind = "static"

\* C11: a machine built by static_animation has exactly one mapping entry,
\* for the static state, which is its current state; the policy evaluation
\* of every render returns None, so no render changes the current state or
\* resets the animation: the animation is only advanced by the time elapsed.
C11_StaticMachineStaysOnItsAnimation ==
    [][IsStaticMachine(machine') =>
         /\ DOMAIN machine'.animations = {StaticState}
         /\ machine'.current_state = StaticState
         /\ (IsStaticMachine(machine) /\ RenderCalled) =>
              /\ op'.next = None
              /\ now' = now
              /\ \E visible \in BOOLEAN :
                   LET r == SpriteAnimationRender(
                              machine.animations[StaticState], now, visible)
                   IN  /\ machine'.animations[StaticState] = r.anim
                       /\ result'.drawn = r.drawn]_vars

\* C11 witness: a static machine whose animation a render has advanced past
\* its first frame.
C11_Witness ==
    /\ IsStaticMachine(machine)
    /\ op.name = "render"
    /\ result.tag = "Ok"
    /\ machine.animations[StaticState].frame_num > 0
    /\ machine.animations[StaticState].last_update = now

----------------------------------------------------------------------------
(* C12: the order of transition and selection within one render *)

\* The frames SpriteAnimation::render counts for animation a, restarted at
\* t and rendered at t_render.
FramesSinceRestart(a, t, t_render) == as_millis(t_render - t) \div FrameMillis(a)

\* C12: when the policy's next_state returns a mapped state s, the transition
\* is applied before the animation is selected: after the call the current
\* state is s, and the animation advanced and drawn is the one mapped to s,
\* restarted from frame index 0 (and advanced from there by the frames that
\* elapse inside the call after the restart); the animation of the previous
\* state (and of every other state) is left alone.
C12_RenderTransitionsBeforeSelecting ==
    [][(RenderCalled /\ ResetsInRender(machine, op'.next)) =>
         LET s == Unwrap(op'.next)
             a == machine.animations[s]
             k == FramesSinceRestart(a, now, now')
         IN  /\ result'.tag = "Ok"
             /\ machine'.current_state = s
             /\ machine'.animations[s].frame_num =
                   IF a.frames_in_sprite_map > 0
                   THEN (0 + k) % a.frames_in_sprite_map ELSE 0
             /\ machine'.animations[s].last_update =
                   IF k > 0 /\ a.frames_in_sprite_map > 0 THEN now' ELSE now
             /\ result'.drawn \in {<<>>, <<machine'.animations[s].sprite.src_rect>>}
             /\ \E visible \in BOOLEAN :
                  LET r == SpriteAnimationRender(reset(a, now), now', visible)
                  IN  /\ machine'.animations[s] = r.anim
                      /\ result'.drawn = r.drawn
             /\ \A q \in DOMAIN machine.animations \ {s} :
                  machine'.animations[q] = machine.animations[q]]_vars

\* C12 witness: a render whose policy asked for a mapped state drew that
\* state's restarted animation, while another state's animation (the one
\* that was playing) still stands on a later frame.
C12_Witness ==
    /\ Built
    /\ op.name = "render" /\ op.next = Some(machine.current_state)
    /\ result.tag = "Ok" /\ result.drawn # <<>>
    /\ machine.animations[machine.current_state].frame_num = 0
    /\ machine.animations[machine.current_state].last_update = now
    /\ \E q \in DOMAIN machine.animations \ {machine.current_state} :
         machine.animations[q].frame_num > 0

----------------------------------------------------------------------------
(* C13: what a render writes *)

\* C13: a render that observes zero elapsed frames, or whose animation has
\* frame count 0, leaves frame index, last-update timestamp and source
\* rectangle cursor unchanged; last_update becomes the sampled now only in a
\* call with elapsed_frames > 0 and frame count > 0.
C13_RenderWritesOnlyWhenFramesElapsed ==
    [][RenderReturned =>
         LET a == TheAnim
             b == Unwrap(anim')
             k == Unwrap(op'.elapsed_frames)
         IN  IF k > 0 /\ a.frames_in_sprite_map > 0
             THEN b.last_update = now
             ELSE /\ b.frame_num = a.frame_num
                  /\ b.last_update = a.last_update
                  /\ b.sprite.src_rect = a.sprite.src_rect]_vars

\* C13 witness: a render of an animated strip, past its first frame, that
\* came too early to see a new frame: its timestamp stays behind the clock.
C13_Witness ==
    /\ anim # None
    /\ op.name = "render" /\ op.elapsed_frames = Some(0)
    /\ result.tag = "Ok"
    /\ TheAnim.frames_in_sprite_map >= 2
    /\ TheAnim.frame_num > 0
    /\ TheAnim.last_update < now

----------------------------------------------------------------------------
(* C14: the elapsed-frame computation *)

\* The step is a call of SpriteAnimation::render.
AnimRenderCalled ==
    /\ anim # None
    /\ now' = now
    /\ op'.name = "render"

\* floor(elapsed / ms_per_frame) for an elapsed time in ticks and a frame
\* duration in 1/MsDen ms.
FloorFrames(elapsed_ticks, ms_fp) ==
    (elapsed_ticks * MsDen) \div (TicksPerMs * ms_fp)

\* C14: for every frame duration ms_per_frame > 0, whole or fractional, also
\* below 1 ms, and every elapsed time, render completes without an
\* arithmetic fault and computes
\* elapsed_frames = floor((now - last_update) / ms_per_frame).
C14_ElapsedFramesIsFloorOfQuotient ==
    [][AnimRenderCalled =>
         /\ result'.tag = "Ok"
         /\ op'.elapsed_frames =
               Some(FloorFrames(now - TheAnim.last_update,
                                TheAnim.milliseconds_per_frame))]_vars

----------------------------------------------------------------------------
(* C15: the cursor and the frame index *)

\* C15: in every reachable state of a SpriteAnimation with frame count > 0,
\* also right after reset, the source rectangle cursor origin is
\* frame_index * frame_size along the advance axis and 0 along the other, so
\* the frame drawn is the frame the frame index names.
C15_CursorFollowsFrameIndex ==
    (anim # None /\ TheAnim.frames_in_sprite_map > 0) =>
        TheAnim.sprite.src_rect = FramePos(TheAnim, TheAnim.frame_num)

----------------------------------------------------------------------------
(* C16: set_state_animation *)

\* The step is a call of set_state_animation on a constructed machine.
SetStateAnimationCalled ==
    /\ Built
    /\ now' = now
    /\ op'.name = "set_state_animation"

\* C16: set_state_animation(s, a) makes s map to a, inserting or replacing,
\* leaves the current state and every other state's entry unchanged and does
\* not reset a, also when s is the current state; afterwards
\* set_current_state(s) succeeds.
C16_SetStateAnimationStoresAsGiven ==
    [][SetStateAnimationCalled =>
         LET s == op'.state
         IN  /\ DOMAIN machine'.animations = DOMAIN machine.animations \cup {s}
             /\ machine'.animations[s] = op'.animation
             /\ machine'.current_state = machine.current_state
             /\ \A q \in DOMAIN machine.animations \ {s} :
                  machine'.animations[q] = machine.animations[q]
             /\ set_current_state(machine', s, now).tag = "Ok"]_vars

\* C16 witness: the animation of the current state, which had advanced, has
\* been replaced by one built earlier, whose older timestamp was kept, next
\* to another entry that stands on a later frame.
C16_Witness ==
    /\ Built
    /\ op.name = "set_state_animation"
    /\ op.state = machine.current_state
    /\ machine.animations[op.state] = op.animation
    /\ op.animation.last_update < now
    /\ op.animation.frames_in_sprite_map >= 2
    /\ \E q \in DOMAIN machine.animations \ {op.state} :
         machine.animations[q].frame_num > 0

----------------------------------------------------------------------------
(* C17: the current state stays mapped *)

CurrentMapped(m) == m.tag = "Ok" /\ m.current_state \in DOMAIN m.animations

\* C17: if the initial state has a mapping entry at construction, then after
\* any sequence of set_state_animation, set_current_state and render calls,
\* with any policy, the current state still has one: construction with a
\* mapped initial state yields a mapped current state, no operation removes
\* an entry, the current state only moves to a state that is mapped at that
\* moment, and so a mapped current state stays mapped.
C17_MappedCurrentStateStaysMapped ==
    [][/\ (~Built /\ op'.name = "new" /\ op'.mapped) => CurrentMapped(machine')
       /\ (~Built /\ op'.name = "static_animation") => CurrentMapped(machine')
       /\ Built =>
            /\ DOMAIN machine.animations \subseteq DOMAIN machine'.animations
            /\ (machine'.current_state # machine.current_state) =>
                  machine'.current_state \in DOMAIN machine.animations
            /\ CurrentMapped(machine) =>
                  (CurrentMapped(machine') /\ result'.tag # "panic")]_vars

\* C17 witness: a machine constructed with a mapped initial state whose
\* policy has just asked for an unmapped state; the render went through and
\* the current state is still a mapped one.
C17_Witness ==
    /\ CurrentMapped(machine)
    /\ op.name = "render" /\ op.next # None
    /\ Unwrap(op.next) \notin DOMAIN machine.animations
    /\ result.tag = "Ok" /\ result.drawn # <<>>
    /\ machine.animations[machine.current_state].frame_num > 0

----------------------------------------------------------------------------
(* SpecLive: a machine whose policy returns None, rendered at least once
   between any two clock ticks, under weak fairness of the clock and of the
   render calls *)

\* The clock runs long enough for the longest frame duration to elapse.
LiveHorizon == (MaxMs \div MsDen + 1) * TicksPerMs

\* The animations SpriteAnimation::new returns Ok for, built at clock 0.
LiveAnims ==
    {r.anim : r \in {q \in {SpriteAnimationNew(i.sprite_size, i.texture,
                                               i.milliseconds_per_frame,
                                               i.animation_direction,
                                               i.frames_in_sprite_map, 0) :
                                i \in AnimInputs} : q.tag = "Ok"}}

\* AnimationStateMachine::static_animation: the policy of StaticAnimation
\* returns None on every render.
InitLive ==
    /\ now = 0
    /\ anim = None
    /\ binding = None
    /\ events = <<>>
    /\ \E a \in LiveAnims : machine = static_animation(a)
    /\ result = NoResult
    /\ op = [name |-> "none"]

\* The clock advances by one tick; the caller has rendered since the last
\* tick, so the interval between two render calls is at most one tick.
LiveTick ==
    /\ now < LiveHorizon
    /\ op.name # "tick"
    /\ now' = now + 1
    /\ op' = [name |-> "tick"]
    /\ UNCHANGED <<anim, machine, result, binding, events>>

\* AnimationStateMachine::render with the policy returning None.
LiveRender ==
    /\ Running
    /\ \E visible \in BOOLEAN :
         LET r == MachineRender(machine, None, now, now, visible)
         IN  /\ machine' = r.machine
             /\ result' = [tag |-> r.tag, drawn |-> r.drawn]
    /\ op' = [name |-> "render", next |-> None, rendered_at |-> now]
    /\ UNCHANGED <<now, anim, binding, events>>

NextLive == LiveTick \/ LiveRender

SpecLive ==
    InitLive /\ [][NextLive]_vars /\ WF_vars(LiveTick) /\ WF_vars(LiveRender)

\* The animation of the machine's current state.
LiveAnim == machine.animations[machine.current_state]

\* C18: for the current state's animation with frame count >= 2 in a machine
\* whose policy returns None, if the clock keeps advancing and render keeps
\* being called, the frame index eventually changes (it leaves the 0 it was
\* constructed with), however short the interval between render calls is
\* compared with ms_per_frame.
C18_FrameIndexEventuallyChanges ==
    (LiveAnim.frames_in_sprite_map >= 2) => <>(LiveAnim.frame_num # 0)

\* The same with a frame duration of at least 1 ms: sub-frame elapsed time
\* is kept between calls, and the index changes once a frame has elapsed.
FrameIndexEventuallyChangesFromOneMs ==
    (LiveAnim.frames_in_sprite_map >= 2 /\ FrameMillis(LiveAnim) >= 1)
        => <>(LiveAnim.frame_num # 0)

\* A render that advanced the index although less than a frame had passed
\* since the render before it.
LiveAdvancedAcrossCalls ==
    /\ op.name = "render" /\ result.tag = "Ok"
    /\ LiveAnim.frame_num = 1
    /\ LiveAnim.last_update = now
    /\ LiveAnim.milliseconds_per_frame = MaxMs

----------------------------------------------------------------------------
(* SpecSameState: a machine of one animation, of a whole, fractional or
   sub-millisecond frame duration, built by new or static_animation, whose
   animation set_state_animation may replace, asked again and again for the
   state it is in, through set_current_state and through the policy in
   render *)

\* The animations handed to the machine: two or three frames of any frame
\* duration up to MaxMs, or a static frame.
SameStateAnimInputs ==
    [sprite_size : {<<PxDen, PxDen>>},
     texture : {Some(<<3, 3>>)},
     milliseconds_per_frame : 1 .. MaxMs,
     animation_direction : {"X"},
     frames_in_sprite_map : {None, Some(2)}]

SameStateAnims(t) ==
    {SpriteAnimationNew(i.sprite_size, i.texture, i.milliseconds_per_frame,
                        i.animation_direction, i.frames_in_sprite_map, t).anim :
        i \in SameStateAnimInputs}
    \cup {new_static_frame(SpriteViewNew(<<PxDen, PxDen>>), t)}

\* The states the caller gives an animation to.
SameStateKeys == {"idle"}

\* AnimationStateMachine::new with a mapping that has an entry for "idle" or
\* none at all; the initial state may be one without an entry.
SameStateNew ==
    /\ Running /\ ~Built
    /\ \E initial_state \in States, D \in SUBSET SameStateKeys :
         \E animations \in [D -> SameStateAnims(now)] :
           LET r == AnimationStateMachineNew(initial_state, animations)
           IN  /\ result' = [tag |-> r.tag]
               /\ machine' = IF r.tag = "Ok" THEN r.machine ELSE NoMachine
               /\ op' = [name |-> "new", state |-> initial_state,
                         mapped |-> initial_state \in D]
    /\ UNCHANGED <<now, anim, binding, events>>

\* AnimationStateMachine::static_animation
SameStateStaticAnimation ==
    /\ Running /\ ~Built
    /\ \E a \in SameStateAnims(now) : machine' = static_animation(a)
    /\ result' = [tag |-> "Ok"]
    /\ op' = [name |-> "static_animation"]
    /\ UNCHANGED <<now, anim, binding, events>>

\* AnimationStateMachine::set_state_animation for the one state the caller
\* gives an animation to (the static state of a static machine), with an
\* animation the caller built just now or when the program started.
SameStateSetStateAnimation ==
    /\ Running /\ Built
    /\ \E s \in StatesOf(machine) \cap (SameStateKeys \cup {StaticState}), built_at \in {0, now} :
         \E a \in SameStateAnims(built_at) :
           /\ machine' = set_state_animation(machine, s, a)
           /\ op' = [name |-> "set_state_animation", state |-> s,
                     animation |-> a]
    /\ result' = [tag |-> "Ok"]
    /\ UNCHANGED <<now, anim, binding, events>>

NextSameState ==
    \/ SameStateNew
    \/ SameStateStaticAnimation
    \/ SameStateSetStateAnimation
    \/ SetCurrentState
    \/ Render
    \/ MachineTick

SpecSameState == Init /\ [][NextSameState]_vars

----------------------------------------------------------------------------
(* C19: a transition to the current state *)

\* The step is a set_current_state call that names the current state.
SameStateSet ==
    /\ Built
    /\ now' = now
    /\ op'.name = "set_current_state" /\ op'.state = machine.current_state

\* The step is a render whose policy returns the current state.
SameStateRendered ==
    /\ RenderCalled
    /\ op'.next = Some(machine.current_state)

\* C19 as stated: a transition to the state that is already current is not a
\* no-op: set_current_state(s) with s the current state, and a render whose
\* policy returns Some(current state), reset the current animation's frame
\* index to 0 and its last-update timestamp to now, so a policy that returns
\* the current state on every tick keeps the index at 0.  (Stated here for
\* the machines whose current state has an animation only.)
C19_SameStateTransitionResets ==
    [][((SameStateSet \/ SameStateRendered) /\ CurrentMapped(machine)) =>
         /\ machine'.current_state = machine.current_state
         /\ machine'.animations[machine.current_state].frame_num = 0
         /\ machine'.animations[machine.current_state].last_update = now]_vars

\* C19 as it holds.  When the current state s has an entry,
\* set_current_state(s) returns Ok and resets that animation's frame index
\* to 0 and its last-update timestamp to now; a render whose policy returns
\* Some(s) does the same reset and then SpriteAnimation::render samples the
\* clock again and advances the animation from index 0 by the frames k it
\* counts between the two samples (whole milliseconds elapsed, divided by
\* ms_per_frame cast to an integer): after the call the index is k modulo
\* the frame count (0 for frame count 0) whatever it was before, hence 0
\* whenever less than one whole millisecond passes inside the call; for
\* ms_per_frame below 1 ms that render panics on the division, after the
\* reset, the index left at 0.  When the current state has no entry,
\* set_current_state(s) returns NoAnimationForState and changes nothing, and
\* the render panics at the lookup.
C19_SameStateTransitionRestarts ==
    [][LET s == machine.current_state
           mapped == s \in DOMAIN machine.animations
           a == machine.animations[s]
           b == machine'.animations[s]
           elapsed_ms == as_millis(now' - now)
           k == elapsed_ms \div FrameMillis(a)
       IN  /\ (SameStateSet /\ mapped) =>
                /\ result'.tag = "Ok"
                /\ machine'.current_state = s
                /\ b.frame_num = 0
                /\ b.last_update = now
           /\ (SameStateSet /\ ~mapped) =>
                /\ result'.tag = "NoAnimationForState"
                /\ machine' = machine
           /\ (SameStateRendered /\ mapped) =>
                /\ machine'.current_state = s
                /\ IF FrameMillis(a) = 0
                   THEN /\ result'.tag = "panic"
                        /\ b.frame_num = 0
                        /\ b.last_update = now
                   ELSE /\ result'.tag = "Ok"
                        /\ b.frame_num = IF a.frames_in_sprite_map > 0
                                         THEN k % a.frames_in_sprite_map ELSE 0
                        /\ b.last_update =
                              IF k > 0 /\ a.frames_in_sprite_map > 0
                              THEN now' ELSE now
                /\ elapsed_ms = 0 => b.frame_num = 0
           /\ (SameStateRendered /\ ~mapped) =>
                /\ result'.tag = "panic"
                /\ machine' = machine]_vars

\* C19 witness: the policy has just answered Some(current state) for an
\* animation of a fractional frame duration; time passed inside the call
\* after the restart, and the animation stands on frame 1.
C19_Witness ==
    /\ CurrentMapped(machine)
    /\ op.name = "render" /\ op.next = Some(machine.current_state)
    /\ op.rendered_at = now
    /\ result.tag = "Ok"
    /\ machine.animations[machine.current_state].frame_num = 1
    /\ machine.animations[machine.current_state].last_update = now
    /\ machine.animations[machine.current_state].milliseconds_per_frame % MsDen # 0
    /\ now = MaxMachineTime

\* Cases of C19 that the model reaches: the render that panics after the
\* reset, and the two calls on a machine whose current state has no entry.
SameStatePanicsAfterReset ==
    /\ CurrentMapped(machine)
    /\ op.name = "render" /\ op.next = Some(machine.current_state)
    /\ result.tag = "panic"
    /\ now > 0
    /\ machine.animations[machine.current_state].last_update = now

SameStateRefusedWithoutEntry ==
    /\ Built /\ ~CurrentMapped(machine)
    /\ op.name = "set_current_state" /\ op.state = machine.current_state
    /\ result.tag = "NoAnimationForState"

----------------------------------------------------------------------------
(* SpecInput: an Axis2dBinding (src/input.rs) fed button events.  The f64
   values of the binding are only ever 0.0 and 1.0, and their differences
   -1.0, 0.0 and 1.0, so they are modelled by the integers. *)

\* piston's Button and ButtonState, and Axis2dDirection.
Buttons == {"Up", "Down", "Left", "Right", "Space"}
ButtonStates == {"Press", "Release"}
Axis2dDirection == {"PosX", "NegX", "PosY", "NegY"}

\* Axis2dBinding::new.  A field is the pair <<button, value>>.
Axis2dBindingNew(pos_x, pos_y, neg_x, neg_y) ==
    [pos_x |-> <<pos_x, 0>>,
     pos_y |-> <<pos_y, 0>>,
     neg_x |-> <<neg_x, 0>>,
     neg_y |-> <<neg_y, 0>>]

\* set_axis that writes the opposite field on the y axis.
set_axis_SwapsY(b, val, dir) ==
    CASE dir = "PosX" -> [b EXCEPT !.pos_x[2] = val]
      [] dir = "NegX" -> [b EXCEPT !.neg_x[2] = val]
      [] dir = "PosY" -> [b EXCEPT !.neg_y[2] = val]
      [] dir = "NegY" -> [b EXCEPT !.pos_y[2] = val]

\* Axis2dBinding::set_axis
set_axis(b, val, dir) ==
    CASE dir = "PosX" -> [b EXCEPT !.pos_x[2] = val]
      [] dir = "NegX" -> [b EXCEPT !.neg_x[2] = val]
      [] dir = "PosY" -> [b EXCEPT !.pos_y[2] = val]
      [] dir = "NegY" -> [b EXCEPT !.neg_y[2] = val]

\* Axis2dBinding::set_axis_button
set_axis_button(b, button, dir) ==
    LET val == IF button = "Press" THEN 1 ELSE 0
    IN  set_axis(b, val, dir)

\* Axis2dBinding::maybe_direction_from_button: the first field, in the order
\* pos_x, pos_y, neg_x, neg_y, whose button is the event's.
maybe_direction_from_button(b, args) ==
    IF args.button = b.pos_x[1] THEN Some("PosX")
    ELSE IF args.button = b.pos_y[1] THEN Some("PosY")
    ELSE IF args.button = b.neg_x[1] THEN Some("NegX")
    ELSE IF args.button = b.neg_y[1] THEN Some("NegY")
    ELSE None

\* From<&mut Axis2dBinding> for [f64; 2]
into(val) == <<val.pos_x[2] - val.neg_x[2], val.pos_y[2] - val.neg_y[2]>>

\* Axis2dBinding::maybe_to_action: the binding afterwards and the value
\* returned.
maybe_to_action(b, args) ==
    LET dir == maybe_direction_from_button(b, args)
    IN  IF dir # None
        THEN LET b2 == set_axis_button(b, args.state, Unwrap(dir))
             IN  [binding |-> b2, action |-> Some(into(b2))]
        ELSE [binding |-> b, action |-> None]

\* The bindings a caller constructs: with four distinct buttons, or with a
\* button bound to both directions of an axis.
BindingInputs ==
    [pos_x : {"Right", "Left"},
     pos_y : {"Up", "Down"},
     neg_x : {"Left", "Right"},
     neg_y : {"Down", "Up"}]

ButtonArgs == [button : Buttons, state : ButtonStates]

InitInput ==
    /\ now = 0
    /\ anim = None
    /\ machine = NoMachine
    /\ result = NoResult
    /\ op = [name |-> "none"]
    /\ \E i \in BindingInputs :
         binding = Axis2dBindingNew(i.pos_x, i.pos_y, i.neg_x, i.neg_y)
    /\ events = <<>>

\* Axis2dBinding::maybe_to_action on the next button event.
MaybeToAction ==
    /\ Len(events) < MaxEvents
    /\ \E args \in ButtonArgs :
         LET r == maybe_to_action(binding, args)
         IN  /\ binding' = r.binding
             /\ result' = [tag |-> "Ok", action |-> r.action]
             /\ op' = [name |-> "maybe_to_action", args |-> args]
             /\ events' = Append(events, args)
    /\ UNCHANGED <<now, anim, machine>>

NextInput == MaybeToAction

SpecInput == InitInput /\ [][NextInput]_vars

----------------------------------------------------------------------------
(* C20: the value of a binding after a sequence of button events *)

\* The buttons of the four directions.
BoundButtons(b) == {b.pos_x[1], b.pos_y[1], b.neg_x[1], b.neg_y[1]}
DistinctButtons(b) == Cardinality(BoundButtons(b)) = 4

\* 1 if the most recent event of evs for the button was Press, 0 if it was
\* Release or there was none.
Held(evs, button) ==
    LET of_button == {i \in 1 .. Len(evs) : evs[i].button = button}
    IN  IF of_button = {} THEN 0
        ELSE LET last == CHOOSE i \in of_button : \A j \in of_button : j <= i
             IN  IF evs[last].state = "Press" THEN 1 ELSE 0

\* The four values are what the event history says.
ValuesFollowEvents(b, evs) ==
    /\ b.pos_x[2] = Held(evs, b.pos_x[1])
    /\ b.neg_x[2] = Held(evs, b.neg_x[1])
    /\ b.pos_y[2] = Held(evs, b.pos_y[1])
    /\ b.neg_y[2] = Held(evs, b.neg_y[1])

\* The fields of b2 other than the one of button are those of b.
OnlyOwnValueChanged(b, b2, button) ==
    /\ BoundButtons(b2) = BoundButtons(b)
    /\ \A f \in {"pos_x", "pos_y", "neg_x", "neg_y"} :
         /\ b2[f][1] = b[f][1]
         /\ b[f][1] # button => b2[f] = b[f]

\* C20: for an Axis2dBinding with four distinct buttons, after any sequence
\* of maybe_to_action calls: an event for an unbound button returns None and
\* leaves the binding unchanged; an event for a bound button returns
\* [px - nx, py - ny], where each of px, nx, py, ny is 1 if the most recent
\* event for that direction's button was Press and 0 if it was Release or
\* there was none, so each component is in {-1, 0, 1} and an event changes
\* only its own direction's value.
C20_AxisValueFollowsMostRecentEvents ==
    /\ [](DistinctButtons(binding) => ValuesFollowEvents(binding, events))
    /\ [][(DistinctButtons(binding) /\ op'.name = "maybe_to_action") =>
            IF op'.args.button \notin BoundButtons(binding)
            THEN result'.action = None /\ binding' = binding
            ELSE /\ result'.action =
                      Some(<<Held(events', binding.pos_x[1])
                               - Held(events', binding.neg_x[1]),
                             Held(events', binding.pos_y[1])
                               - Held(events', binding.neg_y[1])>>)
                 /\ \A c \in 1 .. 2 : Unwrap(result'.action)[c] \in {-1, 0, 1}
                 /\ OnlyOwnValueChanged(binding, binding', op'.args.button)]_vars

\* C20 witness: with four distinct buttons, the negative x and the positive
\* y button are held and a bound button that was not held has just been
\* released: the action returned is [-1, 1].
C20_Witness ==
    /\ DistinctButtons(binding)
    /\ op.name = "maybe_to_action"
    /\ op.args.state = "Release"
    /\ op.args.button \in BoundButtons(binding)
    /\ result.action = Some(<<-1, 1>>)
    /\ Len(events) = MaxEvents

====
